---- MODULE Spec2Model ----
(***************************************************************************)
(* Model of bench/forge_agent.py: the conversion of a Forge conversation   *)
(* record into an ATIF trajectory                                          *)
(* (ForgeAgent._convert_forge_conversation_to_trajectory and the helpers   *)
(* it calls).                                                              *)
(*                                                                         *)
(* Python values are encoded as follows.                                   *)
(*   dict        a function whose domain is the set of keys present        *)
(*   list        a sequence                                                *)
(*   str         a string; the inputs carry no leading or trailing         *)
(*               whitespace except the whitespace-only string Blank        *)
(*   None        NoneS where a str may stand, NoneD where a dict or an     *)
(*               object may stand, Null where an int may stand             *)
(*   str | list  (a `content`) a one-key dict: [str |-> s] or [list |-> l] *)
(***************************************************************************)
EXTENDS Integers, Sequences, FiniteSets, TLC

VARIABLES
    conversation_data,  \* the record converted (the parsed file, when selecting)
    pc,                 \* position in _convert_forge_conversation_to_trajectory
    i,                  \* index of the next raw message of the walk
    default_model_name, \* local default_model_name
    normalized_events,  \* local normalized_events (list of dicts)
    pending_calls,      \* local pending_calls (dict in insertion order)
    uuid_count,         \* number of identifiers drawn from uuid.uuid4()
    steps,              \* local steps (list of Step)
    result,             \* what the call returned: NoneD before it returns
    usage_arg,          \* argument of a direct call of _build_metrics
    metrics_ret,        \* what that call returned, or raised
    block_arg,          \* argument `block` of a call of _format_tool_result
    tool_use_result,    \* argument `tool_use_result` of that call
    format_ret,         \* what that call returned
    session_dir,        \* the files session_dir.glob yields, in glob order
    conversation_files, \* local conversation_files of _convert_events_to_trajectory
    conv_file,          \* index in conversation_files of the loop variable
    select_ret          \* what _convert_events_to_trajectory returned, or raised

format_vars == <<block_arg, tool_use_result, format_ret>>

select_vars == <<session_dir, conversation_files, conv_file, select_ret>>

vars == <<conversation_data, pc, i, default_model_name, normalized_events,
          pending_calls, uuid_count, steps, result, usage_arg, metrics_ret,
          format_vars, select_vars>>

-----------------------------------------------------------------------------
(* Bounds of the model *)

MaxMsgs == 3
MaxTok == 2

-----------------------------------------------------------------------------
(* Python values *)

NoneS == "<None>"
NoneD == [None |-> TRUE]
Null == -1
Blank == " "
EmptyDict == [k \in {} |-> 0]

IsDict(v) == "None" \notin DOMAIN v

Get(d, k, default) == IF k \in DOMAIN d THEN d[k] ELSE default

Put(d, k, v) == [x \in DOMAIN d \cup {k} |-> IF x = k THEN v ELSE d[x]]

\* `a or b` for two str-or-None values
OrS(a, b) == IF a # NoneS /\ a # "" THEN a ELSE b

Strip(s) == IF s = Blank THEN "" ELSE s

-----------------------------------------------------------------------------
(* _build_metrics *)

\* usage.get("input_tokens", 0) + cached_tokens raises TypeError on a null
BuildMetricsRaises(usage) ==
    /\ IsDict(usage)
    /\ \/ Get(usage, "cache_read_input_tokens", 0) = Null
       \/ Get(usage, "input_tokens", 0) = Null

PromptNoCache(usage) == Get(usage, "input_tokens", 0)

PromptTokens(usage) ==
    Get(usage, "input_tokens", 0) + Get(usage, "cache_read_input_tokens", 0)

BuildMetrics(usage) ==
    IF ~IsDict(usage) THEN NoneD
    ELSE LET cached_tokens == Get(usage, "cache_read_input_tokens", 0)
             prompt_tokens == PromptTokens(usage)
             completion_tokens == Get(usage, "output_tokens", 0)
             extra == [k \in DOMAIN usage \ {"input_tokens", "output_tokens"}
                          |-> usage[k]]
         IN  IF /\ prompt_tokens = Null
                /\ completion_tokens = Null
                /\ cached_tokens = Null
                /\ extra = EmptyDict
             THEN NoneD
             ELSE [prompt_tokens |-> prompt_tokens,
                   completion_tokens |-> completion_tokens,
                   cached_tokens |-> cached_tokens,
                   cost_usd |-> Null,
                   extra |-> IF extra = EmptyDict THEN NoneD ELSE extra]

-----------------------------------------------------------------------------
(* _extract_text_reasoning_tool_uses *)

RECURSIVE JoinParts(_)
\* "\n\n".join(part.strip() for part in parts if part and str(part).strip())
JoinParts(parts) ==
    IF parts = <<>> THEN ""
    ELSE LET head == Strip(parts[1])
             rest == JoinParts(Tail(parts))
         IN  IF head = "" THEN rest
             ELSE IF rest = "" THEN head
             ELSE head \o "\n\n" \o rest

ReasoningTypes == {"thinking", "reasoning", "analysis"}

BlockTexts(blocks) == [j \in 1..Len(blocks) |-> blocks[j].text]

\* first component of the returned tuple
ExtractText(content) ==
    IF "str" \in DOMAIN content THEN Strip(content.str)
    ELSE JoinParts(BlockTexts(SelectSeq(content.list,
             LAMBDA b : b.type # "tool_use" /\ b.type \notin ReasoningTypes)))

\* second component: `reasoning or None`
ExtractReasoning(content) ==
    IF "str" \in DOMAIN content THEN NoneS
    ELSE LET reasoning == JoinParts(BlockTexts(SelectSeq(content.list,
                              LAMBDA b : b.type \in ReasoningTypes)))
         IN  IF reasoning = "" THEN NoneS ELSE reasoning

\* third component
ExtractToolBlocks(content) ==
    IF "str" \in DOMAIN content THEN <<>>
    ELSE SelectSeq(content.list, LAMBDA b : b.type = "tool_use")

-----------------------------------------------------------------------------
(* The walk over the raw messages: classification *)

\* msg_type = msg.get("type") or list(msg.keys())[0]; a raw message is
\* [key |-> its type or first key, body |-> msg_content, timestamp |-> ...]
IsTextMessage(msg) == msg.key = "text" \/ "content" \in DOMAIN msg.body

IsToolMessage(msg) ==
    /\ ~IsTextMessage(msg)
    /\ (msg.key = "tool" \/ "tool_call_id" \in DOMAIN msg.body)

\* uuid.uuid4().hex[:8]: the n-th identifier drawn, distinct from the others
Uuid(n) == "call_" \o ToString(n)

\* truthiness of a tagged value ([dict |-> d], [str |-> s], [list |-> l])
Truthy(v) ==
    /\ v # NoneD
    /\ "dict" \in DOMAIN v => DOMAIN v.dict # {}
    /\ "str" \in DOMAIN v => v.str # ""
    /\ "list" \in DOMAIN v => v.list # <<>>

OrV(a, b) == IF Truthy(a) THEN a ELSE b

-----------------------------------------------------------------------------
(* The walk: a text message (lines 445-506) *)

MsgUsage(msg) == Get(msg.body, "usage", NoneD)

UsageTruthy(usage) == IsDict(usage) /\ DOMAIN usage # {}

\* metrics = self._build_metrics(usage) if usage else None
MsgMetrics(msg) ==
    IF UsageTruthy(MsgUsage(msg)) THEN BuildMetrics(MsgUsage(msg)) ELSE NoneD

MsgRaises(msg) ==
    /\ IsTextMessage(msg)
    /\ UsageTruthy(MsgUsage(msg))
    /\ BuildMetricsRaises(MsgUsage(msg))

MsgContent(msg) == Get(msg.body, "content", [str |-> ""])

MsgExtra(msg) ==
    IF OrS(Get(msg.body, "model", NoneS), NoneS) # NoneS
    THEN [model |-> msg.body.model] ELSE EmptyDict

MsgModelName(msg, default) == OrS(Get(msg.body, "model", NoneS), default)

EmitsWhenText(msg) == ExtractText(MsgContent(msg)) # ""

\* if text or reasoning or not tool_blocks
EmitsMessage(msg) ==
    \/ ExtractText(MsgContent(msg)) # ""
    \/ ExtractReasoning(MsgContent(msg)) # NoneS
    \/ ExtractToolBlocks(MsgContent(msg)) = <<>>

MessageEvent(msg, default) ==
    LET role == Get(msg.body, "role", "user")
        extra == MsgExtra(msg)
    IN  [kind |-> "message",
         timestamp |-> msg.timestamp,
         role |-> role,
         text |-> ExtractText(MsgContent(msg)),
         reasoning |-> IF role = "assistant"
                       THEN ExtractReasoning(MsgContent(msg)) ELSE NoneS,
         metrics |-> MsgMetrics(msg),
         extra |-> IF extra = EmptyDict THEN NoneD ELSE extra,
         model_name |-> MsgModelName(msg, default)]

\* tool_block.get("id") or tool_block.get("tool_call_id")
BlockId(block) ==
    OrS(Get(block, "id", NoneS), Get(block, "tool_call_id", NoneS))

\* number of identifiers drawn for blocks 1..j of the list
Drawn(blocks, j) == Cardinality({k \in 1..j : BlockId(blocks[k]) = NoneS})

MetricsLeftBoth(msg) == MsgMetrics(msg)

\* `metrics` when the loop over the tool blocks starts: line 476 has reset it
\* if the message event was appended
MetricsLeft(msg) == IF EmitsMessage(msg) THEN NoneD ELSE MsgMetrics(msg)

AnyBlock(idx) == TRUE

NoBlock(idx) == FALSE

\* idx == 0 in the 0-based enumerate of the source
CarriesMetrics(idx) == idx = 1

\* the dict stored in pending_calls for block idx (1-based) of the message
CallEvent(msg, default, idx, drawn) ==
    LET tool_block == ExtractToolBlocks(MsgContent(msg))[idx]
        call_id == IF BlockId(tool_block) # NoneS THEN BlockId(tool_block)
                   ELSE Uuid(drawn + Drawn(ExtractToolBlocks(MsgContent(msg)), idx))
        raw_arguments == OrV(Get(tool_block, "input", NoneD),
                             Get(tool_block, "arguments", NoneD))
        arguments == IF "dict" \in DOMAIN raw_arguments
                     THEN raw_arguments.dict
                     ELSE [input |-> raw_arguments]
        call_extra == MsgExtra(msg)
    IN  [kind |-> "tool_call",
         timestamp |-> msg.timestamp,
         call_id |-> call_id,
         tool_name |-> OrS(Get(tool_block, "name", NoneS), ""),
         arguments |-> arguments,
         raw_arguments |-> raw_arguments,
         reasoning |-> ExtractReasoning(MsgContent(msg)),
         status |-> Get(tool_block, "status", NoneS),
         message |-> NoneS,
         extra |-> IF call_extra = EmptyDict THEN NoneD ELSE call_extra,
         metrics |-> IF CarriesMetrics(idx) THEN MetricsLeft(msg) ELSE NoneD,
         model_name |-> MsgModelName(msg, default)]

HasKey(pending, call_id) == \E j \in DOMAIN pending : pending[j].call_id = call_id

\* pending_calls[call_id] = {...}: a dict keeps the position of a key it holds
SetPending(pending, ev) ==
    IF HasKey(pending, ev.call_id)
    THEN [j \in DOMAIN pending |->
             IF pending[j].call_id = ev.call_id THEN ev ELSE pending[j]]
    ELSE Append(pending, ev)

RECURSIVE RegisterCalls(_, _, _, _, _)
\* the loop `for idx, tool_block in enumerate(tool_blocks)` from block idx on
RegisterCalls(pending, msg, default, idx, drawn) ==
    IF idx > Len(ExtractToolBlocks(MsgContent(msg))) THEN pending
    ELSE RegisterCalls(SetPending(pending, CallEvent(msg, default, idx, drawn)),
                       msg, default, idx + 1, drawn)

-----------------------------------------------------------------------------
(* The walk: a tool-result message (lines 509-550) *)

\* tool_data.get("tool_call_id") or tool_data.get("id")
ResultCallId(msg) ==
    OrS(Get(msg.body, "tool_call_id", NoneS), Get(msg.body, "id", NoneS))

\* tool_data.get("output") or tool_data.get("content")
ResultOutput(msg) ==
    OrV(Get(msg.body, "output", NoneD), Get(msg.body, "content", NoneD))

RECURSIVE JoinLines(_)
\* "\n".join(output_parts)
JoinLines(parts) ==
    IF parts = <<>> THEN ""
    ELSE IF Len(parts) = 1 THEN parts[1]
    ELSE parts[1] \o "\n" \o JoinLines(Tail(parts))

\* json.dumps(output) of a dict whose `values` yield no output part; the
\* inputs hold one such dict, {"values": []}
JsonDumps(d) == "{\"values\": []}"

\* the values of an output dict that yield an output part
OutputParts(d) ==
    LET values == Get(d, "values", <<>>)
        textual == SelectSeq(values, LAMBDA v : Get(v, "type", NoneS) = "text")
    IN  [j \in 1..Len(textual) |-> Get(textual[j], "content", "")]

\* output_text (lines 532-546)
FormatOutput(output) ==
    IF ~Truthy(output) THEN NoneS
    ELSE IF "dict" \in DOMAIN output
    THEN IF OutputParts(output.dict) # <<>>
         THEN JoinLines(OutputParts(output.dict)) ELSE JsonDumps(output.dict)
    ELSE output.str

\* pending_calls.pop(call_id, None) if call_id else None: is there a match
Matches(pending, msg) == HasKey(pending, ResultCallId(msg))

PopCall(pending, call_id) == SelectSeq(pending, LAMBDA e : e.call_id # call_id)

\* the dict fabricated when no pending call matches (lines 516-529)
FabricatedCall(msg, default, drawn) ==
    [kind |-> "tool_call",
     timestamp |-> msg.timestamp,
     call_id |-> IF ResultCallId(msg) # NoneS THEN ResultCallId(msg)
                 ELSE Uuid(drawn + 1),
     tool_name |-> OrS(Get(msg.body, "name", NoneS), ""),
     arguments |-> EmptyDict,
     raw_arguments |-> NoneD,
     reasoning |-> NoneS,
     status |-> NoneS,
     message |-> NoneS,
     extra |-> NoneD,
     metrics |-> NoneD,
     model_name |-> default]

\* call_info after lines 548-549 (the timestamps of the inputs are truthy)
ResolvedCall(pending, msg, default, drawn) ==
    LET call_info == IF Matches(pending, msg)
                     THEN (CHOOSE e \in {pending[j] : j \in DOMAIN pending} :
                              e.call_id = ResultCallId(msg))
                     ELSE FabricatedCall(msg, default, drawn)
    IN  Put(call_info, "output", FormatOutput(ResultOutput(msg)))

-----------------------------------------------------------------------------
(* _convert_event_to_step *)

\* self.model_name: the model name the run was configured with
SelfModelName == "default-model"

Falsy(str) == str = NoneS \/ str = ""

\* raise ValueError("Tool call event missing call_id or tool_name")
ConvertRaises(event) ==
    /\ event.kind = "tool_call"
    /\ (Falsy(event.call_id) \/ Falsy(event.tool_name))

SourceOf(role) ==
    IF role = "assistant" THEN "agent"
    ELSE IF role = "user" THEN "user" ELSE "system"

\* extra.setdefault(key, value) for the values that are not None
FoldExtra(event) ==
    LET extra == IF event.extra = NoneD THEN EmptyDict ELSE event.extra
        with_raw == IF event.raw_arguments # NoneD /\ "raw_arguments" \notin DOMAIN extra
                    THEN Put(extra, "raw_arguments", event.raw_arguments)
                    ELSE extra
    IN  IF event.status # NoneS /\ "status" \notin DOMAIN with_raw
        THEN Put(with_raw, "status", event.status)
        ELSE with_raw

ObservationAlways(event) ==
    [results |-> <<[source_call_id |-> event.call_id,
                    content |-> Get(event, "output", NoneS),
                    subagent_trajectory_ref |-> NoneS]>>]

\* Observation(results=[observation_result]) if output is not None else None
ObservationOf(event) ==
    IF Get(event, "output", NoneS) # NoneS
    THEN [results |-> <<[source_call_id |-> event.call_id,
                         content |-> event.output,
                         subagent_trajectory_ref |-> NoneS]>>]
    ELSE NoneD

MessageStep(event, step_id) ==
    LET source == SourceOf(event.role)
    IN  [step_id |-> step_id,
         timestamp |-> event.timestamp,
         source |-> source,
         message |-> event.text,
         reasoning_content |-> IF source = "agent" /\ ~Falsy(event.reasoning)
                               THEN event.reasoning ELSE NoneS,
         model_name |-> IF source = "agent"
                        THEN OrS(event.model_name, OrS(SelfModelName, NoneS))
                        ELSE NoneS,
         tool_calls |-> <<>>,
         observation |-> NoneD,
         metrics |-> event.metrics,
         extra |-> event.extra]

ToolCallStep(event, step_id) ==
    [step_id |-> step_id,
     timestamp |-> event.timestamp,
     source |-> "agent",
     message |-> IF Falsy(event.message)
                 THEN "Executed " \o event.tool_name \o " " \o event.call_id
                 ELSE event.message,
     reasoning_content |-> IF Falsy(event.reasoning) THEN NoneS ELSE event.reasoning,
     model_name |-> OrS(OrS(event.model_name, SelfModelName), NoneS),
     tool_calls |-> <<[tool_call_id |-> event.call_id,
                       function_name |-> event.tool_name,
                       arguments |-> event.arguments]>>,
     observation |-> ObservationOf(event),
     metrics |-> event.metrics,
     extra |-> IF FoldExtra(event) = EmptyDict THEN NoneD ELSE FoldExtra(event)]

ConvertEventToStep(event, step_id) ==
    IF event.kind = "message" THEN MessageStep(event, step_id)
    ELSE ToolCallStep(event, step_id)

\* the event after the call: extra.setdefault writes into the event's own
\* dict when `extra or {}` kept it
EventAfterConvert(event) ==
    IF event.kind = "tool_call" /\ ~ConvertRaises(event)
       /\ event.extra # NoneD /\ event.extra # EmptyDict
    THEN [event EXCEPT !.extra = FoldExtra(event)]
    ELSE event

-----------------------------------------------------------------------------
(* The step loop (lines 556-567) *)

\* if step.source == "agent" and not step.model_name and default_model_name
WithDefaultModel(step, default) ==
    IF step.source = "agent" /\ Falsy(step.model_name) /\ ~Falsy(default)
    THEN [step EXCEPT !.model_name = default] ELSE step

\* enumerate(normalized_events, start=1): the identifier of the event at idx
EnumerateIdx(kept, idx) == idx

RECURSIVE ConvertAll(_, _, _, _)
\* the steps appended from event idx on, `kept` steps being already kept
ConvertAll(events, default, idx, kept) ==
    IF idx > Len(events) THEN <<>>
    ELSE IF ConvertRaises(events[idx])
    THEN ConvertAll(events, default, idx + 1, kept)
    ELSE <<WithDefaultModel(
               ConvertEventToStep(events[idx], EnumerateIdx(kept, idx)), default)>>
         \o ConvertAll(events, default, idx + 1, kept + 1)

-----------------------------------------------------------------------------
(* _format_tool_result *)

\* the keys of tool_use_result that are formatted on their own
FormattedKeys ==
    {"stdout", "stderr", "exitCode", "exit_code", "interrupted", "isImage"}

\* the parts taken from block.get("content"): a str or a list of str
ContentParts(content) ==
    IF content = NoneD THEN <<>>
    ELSE IF "str" \in DOMAIN content
    THEN IF Strip(content.str) # "" THEN <<Strip(content.str)>> ELSE <<>>
    ELSE SelectSeq([j \in 1..Len(content.list) |-> Strip(content.list[j])],
                   LAMBDA part : part # "")

\* json.dumps(remaining_meta); the inputs hold one key that is not formatted
\* on its own, filePath, with the value "a.txt"
JsonDumpsMeta(remaining_meta) == "{\"filePath\": \"a.txt\"}"

\* formatted_chunks (lines 364-392)
FormattedChunks(r) ==
    LET stdout == Get(r, "stdout", NoneS)
        stderr == Get(r, "stderr", NoneS)
        exit_code == IF Get(r, "exitCode", Null) \notin {Null, 0}
                     THEN r.exitCode ELSE Get(r, "exit_code", Null)
        remaining_meta == [k \in DOMAIN r \ FormattedKeys |-> r[k]]
    IN  (IF ~Falsy(stdout) THEN <<"[stdout]\n" \o stdout>> ELSE <<>>)
        \o (IF ~Falsy(stderr) THEN <<"[stderr]\n" \o stderr>> ELSE <<>>)
        \o (IF exit_code \notin {Null, 0}
            THEN <<"[exit_code] " \o ToString(exit_code)>> ELSE <<>>)
        \o (IF Get(r, "interrupted", FALSE) THEN <<"[interrupted] True">> ELSE <<>>)
        \o (IF Get(r, "isImage", FALSE) THEN <<"[is_image] True">> ELSE <<>>)
        \o (IF remaining_meta # EmptyDict
            THEN <<"[metadata] " \o JsonDumpsMeta(remaining_meta)>> ELSE <<>>)

\* tool_use_result and isinstance(tool_use_result, dict)
ResultGiven(r) == r # NoneD /\ r # EmptyDict

\* metadata (lines 353-355 and 397-403)
Metadata(b, r) ==
    LET with_result == IF ResultGiven(r) THEN [tool_use_result |-> r] ELSE NoneD
        with_error == IF Get(b, "is_error", FALSE)
                      THEN Put(IF with_result = NoneD THEN EmptyDict ELSE with_result,
                               "is_error", TRUE)
                      ELSE with_result
    IN  IF with_error # NoneD /\ "raw_tool_result" \notin DOMAIN with_error
        THEN Put(with_error, "raw_tool_result", b)
        ELSE with_error

\* the returned tuple (result_text or None, metadata)
FormatToolResult(b, r) ==
    LET chunks == IF ResultGiven(r) THEN FormattedChunks(r) ELSE <<>>
        parts == ContentParts(Get(b, "content", NoneD))
                 \o (IF chunks # <<>> THEN <<JoinLines(chunks)>> ELSE <<>>)
                 \o (IF Get(b, "is_error", FALSE)
                     THEN <<"[error] tool reported failure">> ELSE <<>>)
        result_text == JoinParts(parts)
    IN  [result_text |-> IF result_text = "" THEN NoneS ELSE result_text,
         metadata |-> Metadata(b, r)]

-----------------------------------------------------------------------------
(* Aggregation (lines 573-624) *)

Reports(step, field) == step.metrics # NoneD /\ step.metrics[field] # Null

RECURSIVE SumValues(_, _)
SumValues(ss, field) ==
    IF ss = <<>> THEN 0
    ELSE ss[1].metrics[field] + SumValues(Tail(ss), field)

TotalOrZero(ss, field) ==
    LET reporting == SelectSeq(ss, LAMBDA s : Reports(s, field))
    IN  SumValues(reporting, field)

\* sum(values) if values else None
Total(ss, field) ==
    LET reporting == SelectSeq(ss, LAMBDA s : Reports(s, field))
    IN  IF reporting = <<>> THEN Null ELSE SumValues(reporting, field)

TotalCost(data) ==
    IF Get(data, "metrics", EmptyDict) # EmptyDict
       /\ Get(data, "accumulated_usage", EmptyDict) # EmptyDict
    THEN Get(data.accumulated_usage, "cost", Null)
    ELSE Null

TrajectoryOf(data, ss, model) ==
    [schema_version |-> "ATIF-v1.2",
     session_id |-> Get(data, "id", Uuid(0)),
     agent |-> [name |-> "forge", version |-> "unknown",
                model_name |-> model, extra |-> NoneD],
     steps |-> ss,
     final_metrics |-> [total_prompt_tokens |-> Total(ss, "prompt_tokens"),
                        total_completion_tokens |-> Total(ss, "completion_tokens"),
                        total_cached_tokens |-> Total(ss, "cached_tokens"),
                        total_cost_usd |-> TotalCost(data),
                        total_steps |-> Len(ss),
                        extra |-> NoneD]]

-----------------------------------------------------------------------------
(* Inputs: the raw conversation records the model is run on *)

ToolUse(id, name) ==
    LET base == [type |-> "tool_use", input |-> [dict |-> [path |-> "a.txt"]]]
        with_id == IF id = NoneS THEN base ELSE Put(base, "id", id)
    IN  IF name = NoneS THEN with_id ELSE Put(with_id, "name", name)

TextBlock(text) == [type |-> "text", text |-> text]

ThinkingBlock(text) == [type |-> "thinking", text |-> text]

TextMsg(role, content, usage) ==
    LET body == [role |-> role, content |-> content]
    IN  [key |-> "text",
         body |-> IF usage = NoneD THEN body ELSE Put(body, "usage", usage)]

ToolMsg(call_id, name, output) ==
    LET with_id == IF call_id = NoneS THEN EmptyDict
                   ELSE [tool_call_id |-> call_id]
        with_name == IF name = NoneS THEN with_id ELSE Put(with_id, "name", name)
    IN  [key |-> "tool",
         body |-> IF output = NoneD THEN with_name
                  ELSE Put(with_name, "output", output)]

UsagePlain == [input_tokens |-> 2, output_tokens |-> 1]
UsageCached == [input_tokens |-> 1, output_tokens |-> 1, cache_read_input_tokens |-> 1]
UsageNullInput == [input_tokens |-> Null, output_tokens |-> 1]
UsageNullOutput == [input_tokens |-> 1, output_tokens |-> Null]

TextMessages ==
    { TextMsg("user", [str |-> "hi"], NoneD),
      TextMsg("assistant",
              [list |-> <<TextBlock("ok"), ToolUse("t1", "read")>>], UsageCached),
      TextMsg("assistant",
              [list |-> <<ToolUse("t1", "read"), ToolUse("t2", "write")>>], UsagePlain),
      TextMsg("assistant",
              [list |-> <<ThinkingBlock("plan"), ToolUse("t2", NoneS)>>], NoneD),
      TextMsg("assistant", [list |-> <<ToolUse(NoneS, "read")>>], NoneD),
      TextMsg("assistant", [list |-> <<TextBlock("ok")>>], UsageNullInput),
      TextMsg("assistant", [list |-> <<TextBlock("done")>>], UsageNullOutput) }

ToolMessages ==
    { ToolMsg("t1", NoneS, [str |-> "file contents"]),
      ToolMsg("t1", NoneS, [str |-> ""]),
      ToolMsg("t2", NoneS,
              [dict |-> [values |-> <<[type |-> "text", content |-> "a"],
                                      [type |-> "text", content |-> "b"]>>]]),
      ToolMsg("t2", "read", [str |-> "x"]),
      ToolMsg(NoneS, NoneS, [str |-> "x"]),
      ToolMsg("t1", NoneS, NoneD),
      ToolMsg("t2", NoneS, [dict |-> [values |-> <<>>]]) }

OtherMessages == { [key |-> "image", body |-> [url |-> "u"]] }

RawMessages == TextMessages \cup ToolMessages \cup OtherMessages

\* a tool-use block t1 of tool read with the given input and arguments
ToolUseWith(input, arguments) ==
    LET base == [type |-> "tool_use", id |-> "t1", name |-> "read"]
        with_input == IF input = NoneD THEN base ELSE Put(base, "input", input)
    IN  IF arguments = NoneD THEN with_input
        ELSE Put(with_input, "arguments", arguments)

\* the message with a `model` inside its body (content_data.get("model"))
WithBodyModel(msg, model) == [msg EXCEPT !.body = Put(msg.body, "model", model)]

\* the message with a `model` next to its body (msg.get("model"))
WithTopModel(msg, model) == Put(msg, "model", model)

\* a tool result whose payload is under `content`
ContentResult(call_id, content) ==
    [key |-> "tool", body |-> [tool_call_id |-> call_id, content |-> content]]

ModelMessages ==
    { WithBodyModel(TextMsg("assistant", [str |-> "ok"], NoneD), "m1"),
      WithBodyModel(TextMsg("assistant",
                            [list |-> <<ToolUse("t1", "read")>>], NoneD), "m1"),
      WithTopModel(TextMsg("assistant", [str |-> "ok"], NoneD), "m2"),
      WithTopModel(TextMsg("user", [str |-> "hi"], NoneD), "") }

ArgumentMessages ==
    { TextMsg("assistant",
              [list |-> <<ToolUseWith([dict |-> EmptyDict], NoneD)>>], NoneD),
      TextMsg("assistant", [list |-> <<ToolUseWith([str |-> "ls"], NoneD)>>], NoneD),
      TextMsg("assistant", [list |-> <<ToolUseWith(NoneD, NoneD)>>], NoneD),
      TextMsg("assistant",
              [list |-> <<ToolUseWith(NoneD, [dict |-> [path |-> "b.txt"]])>>],
              NoneD) }

ContentResults == { ContentResult("t1", [str |-> "file contents"]) }

\* the messages of the short conversations
SpecialMessages ==
    ModelMessages \cup ArgumentMessages \cup ContentResults
    \cup { TextMsg("user", [str |-> "hi"], NoneD),
           ToolMsg("t1", NoneS, [str |-> "file contents"]) }

SpecialLists ==
    UNION { [1..n -> SpecialMessages] : n \in 1..(MaxMsgs - 1) }

\* top-level fields of a record next to `id` and `context`
TopLevelMetrics == { NoneD, [dict |-> EmptyDict], [dict |-> [tokens |-> 3]] }

TopLevelUsages ==
    { NoneD, [dict |-> EmptyDict], [dict |-> [cost |-> 2]],
      [dict |-> [input_tokens |-> 3]] }

WithTopLevel(data, metrics, accumulated_usage) ==
    LET with_metrics == IF metrics = NoneD THEN data
                        ELSE Put(data, "metrics", metrics.dict)
    IN  IF accumulated_usage = NoneD THEN with_metrics
        ELSE Put(with_metrics, "accumulated_usage", accumulated_usage.dict)

\* every raw message carries its position as its timestamp
Stamp(ms) == [j \in 1..Len(ms) |-> Put(ms[j], "timestamp", j)]

MessageLists ==
    UNION { [1..n -> RawMessages] : n \in 0..MaxMsgs }

Conversations ==
    { [id |-> "s1", context |-> [messages |-> Stamp(ms)]] : ms \in MessageLists }
    \cup { [id |-> "s1"] }
    \cup { [id |-> "s1", context |-> EmptyDict],
           [id |-> "s1", context |-> [title |-> "t"]] }
    \cup { [id |-> "s1", context |-> [messages |-> Stamp(ms)]] : ms \in SpecialLists }
    \cup { WithTopLevel([id |-> "s1",
                         context |-> [messages |-> Stamp(<<TextMsg("user",
                                                   [str |-> "hi"], NoneD)>>)]], m, u) :
               m \in TopLevelMetrics, u \in TopLevelUsages }

\* usage payloads for direct calls of _build_metrics
TokenValues == (0..MaxTok) \cup {3, 5, 10}

UsageKeys == {"input_tokens", "output_tokens", "cache_read_input_tokens"}

UsagePayloads ==
    UNION { [keys -> TokenValues \cup {Null}] : keys \in SUBSET UsageKeys }

-----------------------------------------------------------------------------
(* The conversion as a state machine *)

Running == [status |-> "running"]
Returned(value) == [status |-> "returned", value |-> value]
Raised(exc) == [status |-> "raised", exc |-> exc]

Messages == Get(Get(conversation_data, "context", EmptyDict), "messages", <<>>)

RECURSIVE FirstModel(_, _)
\* the scan of lines 426-431
FirstModel(ms, default) ==
    IF ms = <<>> THEN default
    ELSE IF ~Falsy(Get(ms[1], "model", NoneS)) THEN ms[1].model
    ELSE FirstModel(Tail(ms), default)

Init ==
    /\ conversation_data \in Conversations
    /\ pc = "start"
    /\ i = 1
    /\ default_model_name = NoneS
    /\ normalized_events = <<>>
    /\ pending_calls = <<>>
    /\ uuid_count = 0
    /\ steps = <<>>
    /\ result = Running
    /\ usage_arg = NoneD
    /\ metrics_ret = Running
    /\ block_arg = NoneD
    /\ tool_use_result = NoneD
    /\ format_ret = Running
    /\ session_dir = <<>>
    /\ conversation_files = <<>>
    /\ conv_file = 0
    /\ select_ret = Running

\* lines 412-420: no context, or no messages
ReturnEmpty ==
    /\ pc = "start"
    /\ Messages = <<>>
    /\ pc' = "done"
    /\ result' = Returned(NoneD)
    /\ UNCHANGED <<conversation_data, i, default_model_name, normalized_events,
                   pending_calls, uuid_count, steps, usage_arg, metrics_ret,
                   format_vars, select_vars>>

\* lines 422-434
Start ==
    /\ pc = "start"
    /\ Messages # <<>>
    /\ default_model_name' = FirstModel(Messages, SelfModelName)
    /\ pc' = "walk"
    /\ UNCHANGED <<conversation_data, i, normalized_events, pending_calls,
                   uuid_count, steps, result, usage_arg, metrics_ret,
                   format_vars, select_vars>>

\* one turn of the loop of line 436 on a text message
WalkText ==
    /\ pc = "walk" /\ i <= Len(Messages)
    /\ IsTextMessage(Messages[i])
    /\ ~MsgRaises(Messages[i])
    /\ LET msg == Messages[i]
           tool_blocks == ExtractToolBlocks(MsgContent(msg))
       IN  /\ normalized_events' =
                  IF EmitsMessage(msg)
                  THEN Append(normalized_events, MessageEvent(msg, default_model_name))
                  ELSE normalized_events
           /\ pending_calls' =
                  RegisterCalls(pending_calls, msg, default_model_name, 1, uuid_count)
           /\ uuid_count' = uuid_count + Drawn(tool_blocks, Len(tool_blocks))
    /\ i' = i + 1
    /\ UNCHANGED <<conversation_data, pc, default_model_name, steps, result,
                   usage_arg, metrics_ret,
                   format_vars, select_vars>>

\* the same turn when _build_metrics raises: nothing catches the TypeError
WalkTextRaises ==
    /\ pc = "walk" /\ i <= Len(Messages)
    /\ MsgRaises(Messages[i])
    /\ pc' = "done"
    /\ result' = Raised("TypeError")
    /\ UNCHANGED <<conversation_data, i, default_model_name, normalized_events,
                   pending_calls, uuid_count, steps, usage_arg, metrics_ret,
                   format_vars, select_vars>>

WalkToolDeferred ==
    /\ pc = "walk" /\ i <= Len(Messages)
    /\ IsToolMessage(Messages[i])
    /\ LET msg == Messages[i]
           call_info == ResolvedCall(pending_calls, msg, default_model_name, uuid_count)
       IN  /\ normalized_events' = normalized_events
           /\ pending_calls' = SetPending(pending_calls, call_info)
           /\ uuid_count' = IF ResultCallId(msg) = NoneS
                            THEN uuid_count + 1 ELSE uuid_count
    /\ i' = i + 1
    /\ UNCHANGED <<conversation_data, pc, default_model_name, steps, result,
                   usage_arg, metrics_ret,
                   format_vars, select_vars>>

\* one turn of the loop on a tool-result message
WalkTool ==
    /\ pc = "walk" /\ i <= Len(Messages)
    /\ IsToolMessage(Messages[i])
    /\ LET msg == Messages[i]
       IN  /\ normalized_events' =
                  Append(normalized_events,
                         ResolvedCall(pending_calls, msg, default_model_name, uuid_count))
           /\ pending_calls' = PopCall(pending_calls, ResultCallId(msg))
           /\ uuid_count' = IF ResultCallId(msg) = NoneS
                            THEN uuid_count + 1 ELSE uuid_count
    /\ i' = i + 1
    /\ UNCHANGED <<conversation_data, pc, default_model_name, steps, result,
                   usage_arg, metrics_ret,
                   format_vars, select_vars>>

\* one turn of the loop on a message of neither shape
WalkOther ==
    /\ pc = "walk" /\ i <= Len(Messages)
    /\ ~IsTextMessage(Messages[i]) /\ ~IsToolMessage(Messages[i])
    /\ i' = i + 1
    /\ UNCHANGED <<conversation_data, pc, default_model_name, normalized_events,
                   pending_calls, uuid_count, steps, result, usage_arg, metrics_ret,
                   format_vars, select_vars>>

\* lines 552-554
Flush ==
    /\ pc = "walk" /\ i > Len(Messages)
    /\ normalized_events' = normalized_events \o pending_calls
    /\ pc' = "steps"
    /\ UNCHANGED <<conversation_data, i, default_model_name, pending_calls,
                   uuid_count, steps, result, usage_arg, metrics_ret,
                   format_vars, select_vars>>

\* lines 556-567
BuildSteps ==
    /\ pc = "steps"
    /\ steps' = ConvertAll(normalized_events, default_model_name, 1, 0)
    /\ normalized_events' = [j \in 1..Len(normalized_events) |->
                                EventAfterConvert(normalized_events[j])]
    /\ pc' = "assemble"
    /\ UNCHANGED <<conversation_data, i, default_model_name, pending_calls,
                   uuid_count, result, usage_arg, metrics_ret,
                   format_vars, select_vars>>

ReturnZeroSteps ==
    /\ pc = "assemble"
    /\ steps = <<>>
    /\ pc' = "done"
    /\ result' = Returned(TrajectoryOf(conversation_data, steps, default_model_name))
    /\ UNCHANGED <<conversation_data, i, default_model_name, normalized_events,
                   pending_calls, uuid_count, steps, usage_arg, metrics_ret,
                   format_vars, select_vars>>

\* lines 569-571
ReturnNoSteps ==
    /\ pc = "assemble"
    /\ steps = <<>>
    /\ pc' = "done"
    /\ result' = Returned(NoneD)
    /\ UNCHANGED <<conversation_data, i, default_model_name, normalized_events,
                   pending_calls, uuid_count, steps, usage_arg, metrics_ret,
                   format_vars, select_vars>>

\* lines 573-624
Assemble ==
    /\ pc = "assemble"
    /\ steps # <<>>
    /\ pc' = "done"
    /\ result' = Returned(TrajectoryOf(conversation_data, steps, default_model_name))
    /\ UNCHANGED <<conversation_data, i, default_model_name, normalized_events,
                   pending_calls, uuid_count, steps, usage_arg, metrics_ret,
                   format_vars, select_vars>>

Next ==
    \/ ReturnEmpty
    \/ Start
    \/ WalkText
    \/ WalkTextRaises
    \/ WalkTool
    \/ WalkOther
    \/ Flush
    \/ BuildSteps
    \/ ReturnNoSteps
    \/ Assemble

Spec == Init /\ [][Next]_vars

-----------------------------------------------------------------------------
(* The conversion as a function of the record, for its callers *)

MessagesOf(data) == Get(Get(data, "context", EmptyDict), "messages", <<>>)

RECURSIVE WalkFrom(_, _, _, _, _, _)
\* the loop of line 436 from message j on, and the flush of lines 553-554:
\* the normalized events, or the exception that ends the walk
WalkFrom(ms, j, default, events, pending, drawn) ==
    IF j > Len(ms) THEN [raised |-> FALSE, events |-> events \o pending]
    ELSE IF MsgRaises(ms[j]) THEN [raised |-> TRUE, events |-> <<>>]
    ELSE IF IsTextMessage(ms[j])
    THEN WalkFrom(ms, j + 1, default,
                  IF EmitsMessage(ms[j])
                  THEN Append(events, MessageEvent(ms[j], default)) ELSE events,
                  RegisterCalls(pending, ms[j], default, 1, drawn),
                  drawn + Drawn(ExtractToolBlocks(MsgContent(ms[j])),
                                Len(ExtractToolBlocks(MsgContent(ms[j])))))
    ELSE IF IsToolMessage(ms[j])
    THEN WalkFrom(ms, j + 1, default,
                  Append(events, ResolvedCall(pending, ms[j], default, drawn)),
                  PopCall(pending, ResultCallId(ms[j])),
                  IF ResultCallId(ms[j]) = NoneS THEN drawn + 1 ELSE drawn)
    ELSE WalkFrom(ms, j + 1, default, events, pending, drawn)

\* what _convert_forge_conversation_to_trajectory(data) returns or raises
ConversionOf(data) ==
    IF MessagesOf(data) = <<>> THEN Returned(NoneD)
    ELSE LET default == FirstModel(MessagesOf(data), SelfModelName)
             walk == WalkFrom(MessagesOf(data), 1, default, <<>>, <<>>, 0)
             kept == ConvertAll(walk.events, default, 1, 0)
         IN  IF walk.raised THEN Raised("TypeError")
             ELSE IF kept = <<>> THEN Returned(NoneD)
             ELSE Returned(TrajectoryOf(data, kept, default))

-----------------------------------------------------------------------------
(* _convert_events_to_trajectory (lines 626-653) *)

MaxFiles == 2

\* what open() and json.load() make of a file: OSError, JSONDecodeError,
\* UnicodeDecodeError (bytes that are no UTF-8), or the parsed record
Unreadable == [failure |-> "OSError"]
Malformed == [failure |-> "JSONDecodeError"]
Undecodable == [failure |-> "UnicodeDecodeError"]

RecordOf(id, ms) == [id |-> id, context |-> [messages |-> Stamp(ms)]]

FileRecords ==
    { RecordOf("s1", <<TextMsg("user", [str |-> "hi"], NoneD)>>),
      RecordOf("s2", <<TextMsg("user", [str |-> "hi"], NoneD)>>),
      RecordOf("s3", <<ToolMsg("t1", NoneS, [str |-> "x"])>>),
      RecordOf("s4", <<TextMsg("assistant", [list |-> <<TextBlock("ok")>>],
                               UsageNullInput)>>) }

FileContents ==
    {Unreadable, Malformed, Undecodable} \cup {[data |-> d] : d \in FileRecords}

\* the orders of n modification times
MtimeOrders(n) ==
    {f \in [1..n -> 1..n] : \A a, b \in 1..n : a # b => f[a] # f[b]}

\* a directory of n .json files: whether the name of a file matches
\* conversation*.json, its st_mtime, and what reading it gives
Directories(n) ==
    { [k \in 1..n |-> [conversation |-> names[k], st_mtime |-> mtimes[k],
                       content |-> contents[k]]] :
          names \in [1..n -> BOOLEAN], mtimes \in MtimeOrders(n),
          contents \in [1..n -> FileContents] }

\* lines 629-631: the files named conversation*.json, else all .json files
Candidates(dir) ==
    IF SelectSeq(dir, LAMBDA f : f.conversation) # <<>>
    THEN SelectSeq(dir, LAMBDA f : f.conversation)
    ELSE dir

RECURSIVE SortByMtime(_)
\* conversation_files.sort(key=lambda f: f.stat().st_mtime, reverse=True)
SortByMtime(files) ==
    IF files = <<>> THEN <<>>
    ELSE LET k == CHOOSE a \in DOMAIN files :
                      \A b \in DOMAIN files : files[b].st_mtime <= files[a].st_mtime
         IN  <<files[k]>>
             \o SortByMtime([j \in 1..(Len(files) - 1) |->
                                 IF j < k THEN files[j] ELSE files[j + 1]])

InitSelect ==
    /\ conversation_data = NoneD
    /\ pc = "select"
    /\ i = 1
    /\ default_model_name = NoneS
    /\ normalized_events = <<>>
    /\ pending_calls = <<>>
    /\ uuid_count = 0
    /\ steps = <<>>
    /\ result = Running
    /\ usage_arg = NoneD
    /\ metrics_ret = Running
    /\ block_arg = NoneD
    /\ tool_use_result = NoneD
    /\ format_ret = Running
    /\ session_dir \in UNION {Directories(n) : n \in 0..MaxFiles}
    /\ conversation_files = <<>>
    /\ conv_file = 0
    /\ select_ret = Running

conversion_vars == <<i, default_model_name, normalized_events, pending_calls,
                     uuid_count, steps, usage_arg, metrics_ret, format_vars>>

\* lines 633-635
ReturnNoFiles ==
    /\ pc = "select"
    /\ Candidates(session_dir) = <<>>
    /\ select_ret' = Returned(NoneD)
    /\ pc' = "done"
    /\ UNCHANGED <<conversation_data, result, session_dir, conversation_files,
                   conv_file, conversion_vars>>

\* lines 629-638
SortFiles ==
    /\ pc = "select"
    /\ Candidates(session_dir) # <<>>
    /\ conversation_files' = SortByMtime(Candidates(session_dir))
    /\ conv_file' = 1
    /\ pc' = "try"
    /\ UNCHANGED <<conversation_data, result, session_dir, select_ret,
                   conversion_vars>>

Trying == pc = "try" /\ conv_file <= Len(conversation_files)

\* lines 649-651: except (json.JSONDecodeError, OSError): continue
LoadFails ==
    /\ Trying
    /\ conversation_files[conv_file].content \in {Unreadable, Malformed}
    /\ conv_file' = conv_file + 1
    /\ UNCHANGED <<conversation_data, result, pc, session_dir, conversation_files,
                   select_ret, conversion_vars>>

\* json.load raises an exception that line 649 does not name
LoadRaises ==
    /\ Trying
    /\ conversation_files[conv_file].content = Undecodable
    /\ select_ret' = Raised("UnicodeDecodeError")
    /\ pc' = "done"
    /\ UNCHANGED <<conversation_data, result, session_dir, conversation_files,
                   conv_file, conversion_vars>>

Loaded == Trying /\ "data" \in DOMAIN conversation_files[conv_file].content

\* lines 642-648 when the conversion returns None: the loop goes on
ConversionYieldsNone ==
    /\ Loaded
    /\ ConversionOf(conversation_files[conv_file].content.data) = Returned(NoneD)
    /\ conversation_data' = conversation_files[conv_file].content.data
    /\ result' = Returned(NoneD)
    /\ conv_file' = conv_file + 1
    /\ UNCHANGED <<pc, session_dir, conversation_files, select_ret, conversion_vars>>

\* lines 644-646 when the conversion raises: line 649 does not catch it
ConversionRaises ==
    /\ Loaded
    /\ ConversionOf(conversation_files[conv_file].content.data).status = "raised"
    /\ conversation_data' = conversation_files[conv_file].content.data
    /\ result' = ConversionOf(conversation_files[conv_file].content.data)
    /\ select_ret' = result'
    /\ pc' = "done"
    /\ UNCHANGED <<session_dir, conversation_files, conv_file, conversion_vars>>

\* lines 647-648
ReturnTrajectory ==
    /\ Loaded
    /\ ConversionOf(conversation_files[conv_file].content.data).status = "returned"
    /\ ConversionOf(conversation_files[conv_file].content.data) # Returned(NoneD)
    /\ conversation_data' = conversation_files[conv_file].content.data
    /\ result' = ConversionOf(conversation_files[conv_file].content.data)
    /\ select_ret' = result'
    /\ pc' = "done"
    /\ UNCHANGED <<session_dir, conversation_files, conv_file, conversion_vars>>

\* line 653
ReturnNoTrajectory ==
    /\ pc = "try"
    /\ conv_file > Len(conversation_files)
    /\ select_ret' = Returned(NoneD)
    /\ pc' = "done"
    /\ UNCHANGED <<conversation_data, result, session_dir, conversation_files,
                   conv_file, conversion_vars>>

NextSelect ==
    \/ ReturnNoFiles
    \/ SortFiles
    \/ LoadFails
    \/ LoadRaises
    \/ ConversionYieldsNone
    \/ ConversionRaises
    \/ ReturnTrajectory
    \/ ReturnNoTrajectory

SpecSelect == InitSelect /\ [][NextSelect]_vars

-----------------------------------------------------------------------------
(* _build_metrics called on its own *)

InitMetrics ==
    /\ conversation_data = [id |-> "s1"]
    /\ pc = "metrics"
    /\ i = 1
    /\ default_model_name = NoneS
    /\ normalized_events = <<>>
    /\ pending_calls = <<>>
    /\ uuid_count = 0
    /\ steps = <<>>
    /\ result = Running
    /\ usage_arg \in UsagePayloads \cup {NoneD}
    /\ metrics_ret = Running
    /\ block_arg = NoneD
    /\ tool_use_result = NoneD
    /\ format_ret = Running
    /\ session_dir = <<>>
    /\ conversation_files = <<>>
    /\ conv_file = 0
    /\ select_ret = Running

CallBuildMetrics ==
    /\ pc = "metrics"
    /\ ~BuildMetricsRaises(usage_arg)
    /\ metrics_ret' = Returned(BuildMetrics(usage_arg))
    /\ pc' = "done"
    /\ UNCHANGED <<conversation_data, i, default_model_name, normalized_events,
                   pending_calls, uuid_count, steps, result, usage_arg,
                   format_vars, select_vars>>

CallBuildMetricsRaises ==
    /\ pc = "metrics"
    /\ BuildMetricsRaises(usage_arg)
    /\ metrics_ret' = Raised("TypeError")
    /\ pc' = "done"
    /\ UNCHANGED <<conversation_data, i, default_model_name, normalized_events,
                   pending_calls, uuid_count, steps, result, usage_arg,
                   format_vars, select_vars>>

NextMetrics == CallBuildMetrics \/ CallBuildMetricsRaises

SpecMetrics == InitMetrics /\ [][NextMetrics]_vars

-----------------------------------------------------------------------------
(* _format_tool_result called on its own *)

BlockContents ==
    { NoneD, [str |-> "out"], [str |-> Blank],
      [list |-> <<"a", "b">>], [list |-> <<"a", Blank>>] }

\* is_error: missing, True or False
ErrorFlags == { NoneD, [flag |-> TRUE], [flag |-> FALSE] }

ResultBlock(content, is_error) ==
    LET base == [type |-> "tool_result", tool_use_id |-> "t1"]
        with_content == IF content = NoneD THEN base
                        ELSE Put(base, "content", content)
    IN  IF is_error = NoneD THEN with_content
        ELSE Put(with_content, "is_error", is_error.flag)

ResultBlocks ==
    { ResultBlock(content, is_error) :
          content \in BlockContents, is_error \in ErrorFlags }

ToolUseResults ==
    { NoneD, EmptyDict,
      [stdout |-> "out"],
      [stderr |-> "err", exitCode |-> 1],
      [stdout |-> "out", exit_code |-> 0],
      [interrupted |-> TRUE],
      [isImage |-> TRUE],
      [filePath |-> "a.txt"],
      [stdout |-> "", filePath |-> "a.txt"] }

InitFormat ==
    /\ conversation_data = [id |-> "s1"]
    /\ pc = "format"
    /\ i = 1
    /\ default_model_name = NoneS
    /\ normalized_events = <<>>
    /\ pending_calls = <<>>
    /\ uuid_count = 0
    /\ steps = <<>>
    /\ result = Running
    /\ usage_arg = NoneD
    /\ metrics_ret = Running
    /\ block_arg \in ResultBlocks
    /\ tool_use_result \in ToolUseResults
    /\ format_ret = Running
    /\ session_dir = <<>>
    /\ conversation_files = <<>>
    /\ conv_file = 0
    /\ select_ret = Running

CallFormatToolResult ==
    /\ pc = "format"
    /\ format_ret' = Returned(FormatToolResult(block_arg, tool_use_result))
    /\ pc' = "done"
    /\ UNCHANGED <<conversation_data, i, default_model_name, normalized_events,
                   pending_calls, uuid_count, steps, result, usage_arg, metrics_ret,
                   block_arg, tool_use_result, select_vars>>

NextFormat == CallFormatToolResult

SpecFormat == InitFormat /\ [][NextFormat]_vars

-----------------------------------------------------------------------------
(* Vocabulary of the properties *)

Range(seq) == {seq[n] : n \in DOMAIN seq}

ReturnedNormally == pc = "done" /\ result.status = "returned"

HasTrajectory == ReturnedNormally /\ result.value # NoneD

\* the steps of the returned trajectory; none when no trajectory is returned
TrajectorySteps == IF HasTrajectory THEN result.value.steps ELSE <<>>

Blocks(j) == ExtractToolBlocks(MsgContent(Messages[j]))

TextPositions == {j \in 1..Len(Messages) : IsTextMessage(Messages[j])}

ToolPositions == {j \in 1..Len(Messages) : IsToolMessage(Messages[j])}

\* no tool-use block before position j carries the call id of the result at j
NeverInvoked(j) ==
    \A k \in TextPositions :
        k < j => \A b \in Range(Blocks(k)) : BlockId(b) # ResultCallId(Messages[j])

\* no tool-result message after position j references the call id of block b
NoLaterResult(j, b) ==
    \A m \in ToolPositions : m > j => ResultCallId(Messages[m]) # BlockId(b)

\* the text of a result output: the string itself, or the text items of its
\* values joined by newlines
ResultText(output) ==
    IF output = NoneD THEN NoneS
    ELSE IF "dict" \in DOMAIN output
    THEN IF OutputParts(output.dict) # <<>>
         THEN JoinLines(OutputParts(output.dict)) ELSE JsonDumps(output.dict)
    ELSE output.str

StepsCalling(call_id) ==
    {n \in 1..Len(TrajectorySteps) :
        /\ TrajectorySteps[n].tool_calls # <<>>
        /\ TrajectorySteps[n].tool_calls[1].tool_call_id = call_id}

\* the events built so far: emitted ones, and pending ones until the flush
\* has copied them
LiveEvents ==
    IF pc \in {"start", "walk"} THEN normalized_events \o pending_calls
    ELSE normalized_events

\* the events of a list that stem from raw message j and carry metrics
MetricCarriers(events, j) ==
    {n \in DOMAIN events : events[n].timestamp = j /\ events[n].metrics # NoneD}

\* the raw message at j has a usage payload that yields metrics
HasUsage(j) == IsTextMessage(Messages[j]) /\ MsgMetrics(Messages[j]) # NoneD

\* the count a usage key contributes: 0 when missing or null
RawValue(j, key) ==
    IF HasUsage(j) /\ Get(MsgUsage(Messages[j]), key, 0) # Null
    THEN Get(MsgUsage(Messages[j]), key, 0) ELSE 0

RECURSIVE RawSum(_, _)
\* the sum of a usage key over the raw messages 1..n
RawSum(key, n) == IF n = 0 THEN 0 ELSE RawSum(key, n - 1) + RawValue(n, key)

\* message j has just been walked
JustWalked(j) == pc = "walk" /\ i = j + 1

MessageEventsOf(j) ==
    {e \in Range(normalized_events) : e.kind = "message" /\ e.timestamp = j}

PendingEventsOf(j) == {e \in Range(pending_calls) : e.timestamp = j}

FinalMetrics == result.value.final_metrics

StepReports(s, field) == s.metrics # NoneD /\ s.metrics[field] # Null

RECURSIVE SumUpTo(_, _, _)
\* the sum of a metrics field over the steps 1..n that report it
SumUpTo(ss, field, n) ==
    IF n = 0 THEN 0
    ELSE SumUpTo(ss, field, n - 1)
         + (IF StepReports(ss[n], field) THEN ss[n].metrics[field] ELSE 0)

ExpectedTotal(ss, field) ==
    IF \E n \in DOMAIN ss : StepReports(ss[n], field)
    THEN SumUpTo(ss, field, Len(ss)) ELSE Null

TotalsAreSums ==
    /\ FinalMetrics.total_prompt_tokens
           = ExpectedTotal(TrajectorySteps, "prompt_tokens")
    /\ FinalMetrics.total_completion_tokens
           = ExpectedTotal(TrajectorySteps, "completion_tokens")
    /\ FinalMetrics.total_cached_tokens
           = ExpectedTotal(TrajectorySteps, "cached_tokens")

\* no usage payload of the run has the key cache_read_input_tokens
NoCacheKey ==
    \A j \in TextPositions :
        "cache_read_input_tokens" \notin DOMAIN MsgUsage(Messages[j])

SomeStepHasMetrics == \E n \in DOMAIN TrajectorySteps : TrajectorySteps[n].metrics # NoneD

\* the value of a usage key of the direct call, 0 when the key is missing
Count(key) == IF key \in DOMAIN usage_arg THEN usage_arg[key] ELSE 0

IntegerCounts == IsDict(usage_arg) /\ \A k \in DOMAIN usage_arg : usage_arg[k] # Null

\* the output of a tool-result message is present and not empty
NonEmptyOutput(msg) ==
    /\ "output" \in DOMAIN msg.body
    /\ msg.body.output \notin {[str |-> ""], [dict |-> EmptyDict]}

HasOutput(event) == "output" \in DOMAIN event /\ event.output # NoneS

ToolMessagesWalked ==
    SelectSeq(SubSeq(Messages, 1, i - 1), IsToolMessage)

ToolCallEvents == SelectSeq(normalized_events, LAMBDA e : e.kind = "tool_call")

-----------------------------------------------------------------------------
(* Properties *)

\* C1: in every trajectory returned, the step identifiers are 1, 2, ..., n in
\* step order, also when events were skipped during step conversion.
C1_StepIdsContiguous ==
    HasTrajectory =>
        \A n \in 1..Len(TrajectorySteps) : TrajectorySteps[n].step_id = n

\* C2: a tool-result message whose call identifier matches no pending call
\* (here: no earlier tool-use block carries it) still yields a step with one
\* tool invocation in the trajectory.
C2_UnmatchedResultKept ==
    ReturnedNormally =>
        \A j \in ToolPositions :
            NeverInvoked(j) =>
                \E n \in 1..Len(TrajectorySteps) :
                    /\ TrajectorySteps[n].timestamp = j
                    /\ Len(TrajectorySteps[n].tool_calls) = 1

\* C3: every tool-use block that no later tool-result message references
\* yields a step of its own with one tool invocation and no observation.
C3_UnansweredCallKept ==
    ReturnedNormally =>
        \A j \in TextPositions :
            \A b \in Range(Blocks(j)) :
                NoLaterResult(j, b) =>
                    \E n \in 1..Len(TrajectorySteps) :
                        LET s == TrajectorySteps[n]
                        IN  /\ s.timestamp = j
                            /\ Len(s.tool_calls) = 1
                            /\ s.tool_calls[1].function_name
                                   = OrS(Get(b, "name", NoneS), "")
                            /\ BlockId(b) # NoneS
                                   => s.tool_calls[1].tool_call_id = BlockId(b)
                            /\ s.observation = NoneD

\* C4: a tool-use block with call id c followed later by a tool-result message
\* referencing c yields exactly one step calling c, and that step has an
\* observation referencing c whose content is the text of the result.
C4_RoundTrip ==
    ReturnedNormally =>
        \A j \in TextPositions : \A k \in ToolPositions :
            \A b \in Range(Blocks(j)) :
                (j < k /\ BlockId(b) # NoneS /\ BlockId(b) = ResultCallId(Messages[k]))
                => /\ Cardinality(StepsCalling(BlockId(b))) = 1
                   /\ \A n \in StepsCalling(BlockId(b)) :
                          LET s == TrajectorySteps[n]
                          IN  /\ s.observation # NoneD
                              /\ s.observation.results[1].source_call_id = BlockId(b)
                              /\ s.observation.results[1].content
                                     = ResultText(ResultOutput(Messages[k]))

\* C5: of the events created from one raw message at most one carries
\* metrics, at every point of the conversion; so at most one step per raw
\* message carries metrics and the totals never exceed the raw usage.
C5_UsageAttributedOnce ==
    /\ \A j \in 1..Len(Messages) :
           /\ Cardinality(MetricCarriers(LiveEvents, j)) <= 1
           /\ Cardinality(MetricCarriers(steps, j)) <= 1
    /\ HasTrajectory =>
           /\ FinalMetrics.total_prompt_tokens
                  <= RawSum("input_tokens", Len(Messages))
                     + RawSum("cache_read_input_tokens", Len(Messages))
           /\ FinalMetrics.total_completion_tokens
                  <= RawSum("output_tokens", Len(Messages))

\* C5 witness: a message with usage and two tool-use blocks has been converted
\* into two events, one of them carrying the metrics.
C5_Witness ==
    /\ HasTrajectory
    /\ \E j \in TextPositions :
           /\ HasUsage(j)
           /\ Len(Blocks(j)) = 2
           /\ Cardinality({n \in DOMAIN normalized_events :
                              normalized_events[n].timestamp = j}) = 2
           /\ Cardinality(MetricCarriers(normalized_events, j)) = 1

C7_TotalsAbsentWithoutCacheKey ==
    HasTrajectory =>
        /\ TotalsAreSums
        /\ NoCacheKey => FinalMetrics.total_cached_tokens = Null

\* C7 amended: each total is the sum of the field over the kept steps that
\* report it, absent when none does; the totals of prompt and cached tokens
\* are absent exactly when no kept step carries metrics, so a run whose
\* payloads lack cache_read_input_tokens has a cached total of 0 once a kept
\* step carries metrics.
C7_TotalsOverReportingSteps ==
    HasTrajectory =>
        /\ TotalsAreSums
        /\ FinalMetrics.total_cached_tokens = Null <=> ~SomeStepHasMetrics
        /\ FinalMetrics.total_prompt_tokens = Null <=> ~SomeStepHasMetrics
        /\ (NoCacheKey /\ SomeStepHasMetrics)
               => FinalMetrics.total_cached_tokens = 0

\* C7 witness: a trajectory of a run without any cache_read_input_tokens in
\* which a kept step reports no completion tokens and the cached total is 0.
C7_Witness ==
    /\ HasTrajectory
    /\ NoCacheKey
    /\ FinalMetrics.total_cached_tokens = 0
    /\ FinalMetrics.total_completion_tokens # Null
    /\ \E n \in DOMAIN TrajectorySteps :
           /\ TrajectorySteps[n].metrics # NoneD
           /\ TrajectorySteps[n].metrics.completion_tokens = Null

\* C8: for a usage mapping with integer counts, prompt = input_tokens +
\* cache_read_input_tokens, completion = output_tokens, cached =
\* cache_read_input_tokens, a missing key counting as 0.
C8_DerivedMetrics ==
    (pc = "done" /\ IntegerCounts)
    => /\ metrics_ret.status = "returned"
       /\ metrics_ret.value # NoneD
       /\ metrics_ret.value.prompt_tokens
              = Count("input_tokens") + Count("cache_read_input_tokens")
       /\ metrics_ret.value.completion_tokens = Count("output_tokens")
       /\ metrics_ret.value.cached_tokens = Count("cache_read_input_tokens")

\* C8 witness: the call on input 10, output 5, cache read 3 has returned
\* prompt 13, completion 5, cached 3.
C8_Witness ==
    /\ pc = "done"
    /\ usage_arg = [input_tokens |-> 10, output_tokens |-> 5,
                    cache_read_input_tokens |-> 3]
    /\ metrics_ret.status = "returned"
    /\ metrics_ret.value.prompt_tokens = 13
    /\ metrics_ret.value.completion_tokens = 5
    /\ metrics_ret.value.cached_tokens = 3

\* C9: a step built from a tool_call event has exactly one tool invocation,
\* and one observation result referencing the same call id exactly when the
\* event's output is present; the k-th tool_call event emitted during the
\* walk has an output exactly when the k-th tool-result message has a
\* non-empty output, and a pending call never has one.
C9_ObservationIffOutput ==
    /\ \A e \in Range(pending_calls) : ~HasOutput(e)
    /\ pc = "walk" =>
           /\ Len(ToolCallEvents) = Len(ToolMessagesWalked)
           /\ \A k \in DOMAIN ToolCallEvents :
                  HasOutput(ToolCallEvents[k]) <=> NonEmptyOutput(ToolMessagesWalked[k])
    /\ pc \in {"assemble", "done"} =>
           \A n \in DOMAIN steps :
               LET s == steps[n]
                   e == normalized_events[s.step_id]
               IN  e.kind = "tool_call" =>
                       /\ Len(s.tool_calls) = 1
                       /\ s.tool_calls[1].tool_call_id = e.call_id
                       /\ s.observation # NoneD <=> HasOutput(e)
                       /\ s.observation # NoneD =>
                              /\ Len(s.observation.results) = 1
                              /\ s.observation.results[1].source_call_id = e.call_id
                              /\ s.observation.results[1].content = e.output

\* C9 witness: a trajectory with a step without observation for a call that
\* was answered with an empty output, and one for a call never answered.
C9_Witness ==
    /\ HasTrajectory
    /\ \E n \in DOMAIN steps :
           /\ normalized_events[steps[n].step_id].kind = "tool_call"
           /\ "output" \in DOMAIN normalized_events[steps[n].step_id]
           /\ steps[n].observation = NoneD
    /\ \E n \in DOMAIN steps :
           /\ normalized_events[steps[n].step_id].kind = "tool_call"
           /\ "output" \notin DOMAIN normalized_events[steps[n].step_id]
           /\ steps[n].observation = NoneD

\* C10: the conversion ends by returning a trajectory or None, never by
\* raising.
C10_NeverRaises == result.status # "raised"

\* the walk has gone over every raw message (there may be none)
WalkCompleted == pc = "done" /\ i > Len(Messages)

\* the normalized events the step builder does not skip
KeptEvents == SelectSeq(normalized_events, LAMBDA e : ~ConvertRaises(e))

\* C11: the conversion returns None when the record has no context or no
\* messages, and when the walk completed and every normalized event is
\* skipped; a trajectory returned has at least one step, and total_steps is
\* the number of its steps, which is the number of events not skipped.
C11_NoTrajectoryOrSteps ==
    /\ (pc = "done" /\ Messages = <<>>) => result = Returned(NoneD)
    /\ (WalkCompleted /\ KeptEvents = <<>>) => result = Returned(NoneD)
    /\ HasTrajectory =>
           /\ Len(TrajectorySteps) >= 1
           /\ FinalMetrics.total_steps = Len(TrajectorySteps)
           /\ Len(TrajectorySteps) = Len(KeptEvents)

\* C11 witness: a conversation with messages whose normalized events were
\* all skipped has returned None.
C11_Witness ==
    /\ WalkCompleted
    /\ Messages # <<>>
    /\ normalized_events # <<>>
    /\ KeptEvents = <<>>
    /\ result = Returned(NoneD)

\* the position of the k-th tool-result message of the conversation
NthToolPosition(k) ==
    CHOOSE j \in ToolPositions : Cardinality({m \in ToolPositions : m <= j}) = k

\* a tool_call event that a tool-result message has resolved
IsResolved(e) == e.kind = "tool_call" /\ "output" \in DOMAIN e

\* the number of resolved events among the first n normalized events
ResolvedUpTo(n) ==
    Cardinality({m \in 1..n : IsResolved(normalized_events[m])})

\* the event stems from a tool-use block of the raw message it is stamped with
FromBlock(e) ==
    /\ e.timestamp \in TextPositions
    /\ \E b \in Range(Blocks(e.timestamp)) :
           /\ BlockId(b) \in {e.call_id, NoneS}
           /\ e.tool_name = OrS(Get(b, "name", NoneS), "")

\* C12: the k-th resolved tool_call event of the normalized list belongs to
\* the k-th tool-result message (resolved events are in the order of their
\* results, whatever the order of the invocations); it comes after the
\* message events of the raw messages before that result, before those of
\* the raw messages after it and before the calls left pending; a matched one
\* keeps the invocation it resolves; and the steps are in the order of the
\* events.
C12_ResolvedOnArrival ==
    /\ \A n \in DOMAIN normalized_events :
           IsResolved(normalized_events[n]) =>
               /\ ResolvedUpTo(n) <= Cardinality(ToolPositions)
               /\ LET e == normalized_events[n]
                      j == NthToolPosition(ResolvedUpTo(n))
                  IN  /\ j < i
                      /\ ResultCallId(Messages[j]) # NoneS
                             => e.call_id = ResultCallId(Messages[j])
                      /\ e.timestamp <= j
                      /\ e.timestamp < j => FromBlock(e)
                      /\ \A m \in DOMAIN normalized_events :
                             normalized_events[m].kind = "message" =>
                                 (m < n <=> normalized_events[m].timestamp < j)
                      /\ \A m \in DOMAIN normalized_events :
                             (normalized_events[m].kind = "tool_call"
                              /\ ~IsResolved(normalized_events[m])) => n < m
    /\ \A a, b \in DOMAIN steps : a < b => steps[a].step_id < steps[b].step_id

\* C12 witness: a trajectory in which two calls invoked by one raw message
\* were answered in the reverse order, and their steps are in the order of
\* the answers.
C12_Witness ==
    /\ HasTrajectory
    /\ \E a, b \in DOMAIN steps :
           /\ a < b
           /\ steps[a].observation # NoneD /\ steps[b].observation # NoneD
           /\ steps[a].timestamp = steps[b].timestamp
           /\ \E p, q \in DOMAIN Blocks(steps[a].timestamp) :
                  /\ p < q
                  /\ BlockId(Blocks(steps[a].timestamp)[q])
                         = steps[a].tool_calls[1].tool_call_id
                  /\ BlockId(Blocks(steps[a].timestamp)[p])
                         = steps[b].tool_calls[1].tool_call_id

\* a tool_call event that was still pending when the walk ended
IsFlushed(e) == e.kind = "tool_call" /\ "output" \notin DOMAIN e

\* the place, in its raw message, of the tool-use block the event stems from
BlockIndex(e) ==
    LET candidates == {idx \in DOMAIN Blocks(e.timestamp) :
                          BlockId(Blocks(e.timestamp)[idx]) \in {e.call_id, NoneS}}
    IN  CHOOSE idx \in candidates : \A other \in candidates : other <= idx

\* the block of d was encountered before the block of e
InvokedBefore(d, e) ==
    \/ d.timestamp < e.timestamp
    \/ d.timestamp = e.timestamp /\ BlockIndex(d) < BlockIndex(e)

\* C13: when the walk has ended, the calls still pending come after every
\* other normalized event, and among themselves in the order in which their
\* tool-use blocks were encountered.
C13_PendingFlushedInOrder ==
    pc = "steps" =>
        \A m, n \in DOMAIN normalized_events :
            IsFlushed(normalized_events[n]) =>
                /\ ~IsFlushed(normalized_events[m]) => m < n
                /\ (IsFlushed(normalized_events[m]) /\ m < n)
                       => InvokedBefore(normalized_events[m], normalized_events[n])

\* the cost of the record's top-level accumulated_usage, Null when the record
\* has no accumulated_usage or that has no cost
RecordCost ==
    LET accumulated_usage == Get(conversation_data, "accumulated_usage", EmptyDict)
    IN  IF "cost" \in DOMAIN accumulated_usage THEN accumulated_usage.cost ELSE Null

\* C14: total_cost_usd of a trajectory is the cost of the record's top-level
\* accumulated_usage when there is one, whatever the other top-level fields
\* are, and absent otherwise.
C14_CostFromAccumulatedUsage ==
    HasTrajectory => FinalMetrics.total_cost_usd = RecordCost

\* the usage payload of the direct call has only counts that are zero or
\* null, and no key besides input_tokens and output_tokens
NothingToReport ==
    /\ IsDict(usage_arg)
    /\ DOMAIN usage_arg \subseteq {"input_tokens", "output_tokens"}
    /\ \A k \in DOMAIN usage_arg : usage_arg[k] \in {0, Null}

\* C15: _build_metrics returns None, not a record of zeros, when the usage
\* payload is absent or no mapping, and when its counts are all zero or null
\* and it has no extra key.
C15_NoMetricsWhenEmpty ==
    (pc = "done" /\ metrics_ret.status = "returned"
     /\ (~IsDict(usage_arg) \/ NothingToReport))
    => metrics_ret.value = NoneD

\* the raw message at j has the shape of a tool result
CarriesCallId(j) == "tool_call_id" \in DOMAIN Messages[j].body

\* C16: a raw message that carries a tool_call_id is processed as a tool
\* result, also when its payload is under `content`: once walked, the last
\* normalized event is a resolved tool_call event with that call id, the call
\* is no longer pending, and no message event stems from the raw message.
C16_ResultShapeFirst ==
    \A j \in 1..Len(Messages) :
        (JustWalked(j) /\ CarriesCallId(j))
        => /\ MessageEventsOf(j) = {}
           /\ normalized_events # <<>>
           /\ IsResolved(normalized_events[Len(normalized_events)])
           /\ normalized_events[Len(normalized_events)].call_id
                  = Messages[j].body.tool_call_id
           /\ ~HasKey(pending_calls, Messages[j].body.tool_call_id)

\* the places of the message events that stem from the raw message at j
MessageIndices(j) ==
    {n \in DOMAIN normalized_events :
        normalized_events[n].kind = "message" /\ normalized_events[n].timestamp = j}

\* the raw message at j has tool-use blocks and neither text nor reasoning
OnlyToolUse(j) ==
    /\ Blocks(j) # <<>>
    /\ ExtractText(MsgContent(Messages[j])) = ""
    /\ ExtractReasoning(MsgContent(Messages[j])) = NoneS

\* C17: a text message that has been walked has exactly one message event,
\* unless it has tool-use blocks and neither text nor reasoning, and then it
\* has none; the event is appended when the message is walked; a message not
\* yet walked has none; and the message events are in the order of their raw
\* messages.
C17_OneMessageEvent ==
    /\ \A j \in TextPositions :
           /\ j < i => Cardinality(MessageIndices(j))
                           = IF OnlyToolUse(j) THEN 0 ELSE 1
           /\ j >= i => MessageIndices(j) = {}
           /\ (JustWalked(j) /\ ~OnlyToolUse(j))
                  => MessageIndices(j) = {Len(normalized_events)}
    /\ \A m, n \in DOMAIN normalized_events :
           (m < n /\ normalized_events[m].kind = "message"
            /\ normalized_events[n].kind = "message")
           => normalized_events[m].timestamp < normalized_events[n].timestamp

\* C17 witness: a conversion has ended in which one raw message with a
\* tool-use block and reasoning has its message event, and another with
\* tool-use blocks only has none but has a tool_call event.
C17_Witness ==
    /\ WalkCompleted
    /\ \E j, k \in TextPositions :
           /\ Blocks(j) # <<>> /\ ~OnlyToolUse(j)
           /\ Cardinality(MessageIndices(j)) = 1
           /\ OnlyToolUse(k)
           /\ MessageIndices(k) = {}
           /\ \E e \in Range(normalized_events) :
                  e.kind = "tool_call" /\ e.timestamp = k

\* C18: the step builder leaves the normalized events as the walk produced
\* them, no step changes the raw conversation record, and converting an
\* event a second time gives the same step.
C18_StagesDoNotMutate ==
    [][/\ pc = "steps" => normalized_events' = normalized_events
       /\ conversation_data' = conversation_data
       /\ pc = "steps" =>
              \A n \in DOMAIN normalized_events :
                  ~ConvertRaises(normalized_events[n]) =>
                      ConvertEventToStep(normalized_events'[n], n)
                          = ConvertEventToStep(normalized_events[n], n)]_vars

\* the structured input of a tool-use block: its `input`, or its `arguments`
\* when it has no `input`
StructuredInput(b) == Get(b, "input", Get(b, "arguments", NoneD))

\* the arguments the block is to give: the input itself when it is a mapping,
\* the wrapper around the raw value otherwise
ExpectedArguments(b) ==
    IF "dict" \in DOMAIN StructuredInput(b) THEN StructuredInput(b).dict
    ELSE [input |-> StructuredInput(b)]

\* C19: the tool_call event registered for a tool-use block has the block's
\* input as its arguments when the input is a mapping, the empty one
\* included, and the wrapper {input: raw value} otherwise.
C19_ArgumentsFromInput ==
    \A j \in TextPositions :
        JustWalked(j) =>
            \A b \in Range(Blocks(j)) :
                BlockId(b) # NoneS =>
                    \E e \in PendingEventsOf(j) :
                        /\ e.call_id = BlockId(b)
                        /\ e.arguments = ExpectedArguments(b)

\* the model a raw message declares, next to its body or inside it; NoneS
\* when it declares none
DeclaredModel(msg) ==
    OrS(Get(msg, "model", NoneS), OrS(Get(msg.body, "model", NoneS), NoneS))

\* the model declared by the first raw message that declares one, else the
\* model name the run was configured with
FirstDeclaredModel ==
    LET declaring == {j \in 1..Len(Messages) : DeclaredModel(Messages[j]) # NoneS}
    IN  IF declaring = {} THEN SelfModelName
        ELSE DeclaredModel(Messages[CHOOSE j \in declaring :
                                        \A k \in declaring : j <= k])

\* C20: the agent model name of a trajectory is the model declared by the
\* first raw message that declares one, inside its body or next to it, and
\* the configured default when no raw message declares a model.
C20_AgentModelIsFirstDeclared ==
    HasTrajectory => result.value.agent.model_name = FirstDeclaredModel

\* C22: the metadata _format_tool_result returns is never None and holds the
\* raw block under raw_tool_result, whatever the block and the structured
\* result are; it holds the structured result under tool_use_result whenever
\* one is given.
C22_MetadataKeepsRawBlock ==
    (pc = "done" /\ format_ret.status = "returned")
    => /\ format_ret.value.metadata # NoneD
       /\ Get(format_ret.value.metadata, "raw_tool_result", NoneD) = block_arg
       /\ tool_use_result # NoneD
              => Get(format_ret.value.metadata, "tool_use_result", NoneD)
                     = tool_use_result

\* the file can be read and parsed, and its record converts to a trajectory
Yields(f) ==
    /\ "data" \in DOMAIN f.content
    /\ ConversionOf(f.content.data).status = "returned"
    /\ ConversionOf(f.content.data) # Returned(NoneD)

\* the places in conversation_files of the candidates that yield a trajectory
Yielding == {k \in DOMAIN conversation_files : Yields(conversation_files[k])}

\* C21: the candidates are tried from the most recently modified to the
\* least; the selection ends by returning, never by raising, whatever the
\* candidates are; it returns the trajectory of the first candidate that
\* yields one, and None only when no candidate yields one.
C21_SelectionTriesEveryCandidate ==
    /\ \A a, b \in DOMAIN conversation_files :
           a < b => conversation_files[a].st_mtime > conversation_files[b].st_mtime
    /\ pc = "done" =>
           /\ Range(conversation_files) = Range(Candidates(session_dir))
           /\ select_ret.status = "returned"
           /\ IF Yielding = {} THEN select_ret.value = NoneD
              ELSE select_ret
                       = ConversionOf(conversation_files[
                             CHOOSE k \in Yielding : \A m \in Yielding : k <= m
                         ].content.data)

\* every tool-use block has a tool name, and no two blocks share a call id
WellFormedCalls ==
    /\ \A j \in TextPositions : \A b \in Range(Blocks(j)) :
           ~Falsy(Get(b, "name", NoneS))
    /\ \A j, k \in TextPositions :
           \A p \in DOMAIN Blocks(j) : \A q \in DOMAIN Blocks(k) :
               (<<j, p>> # <<k, q>> /\ BlockId(Blocks(j)[p]) # NoneS)
               => BlockId(Blocks(j)[p]) # BlockId(Blocks(k)[q])

\* the text messages that have a non-empty usage mapping
UsagePositions ==
    {j \in TextPositions : UsageTruthy(MsgUsage(Messages[j]))}

\* C23: in a trajectory of a message list whose tool-use blocks all have a
\* name and pairwise distinct call ids, total_prompt_tokens is the sum of
\* input_tokens + cache_read_input_tokens over the text messages with a
\* non-empty usage mapping, and total_completion_tokens the sum of their
\* output_tokens; a total is absent when no such message reports the count.
C23_TokenConservation ==
    (HasTrajectory /\ WellFormedCalls)
    => /\ FinalMetrics.total_prompt_tokens
              = IF UsagePositions = {} THEN Null
                ELSE RawSum("input_tokens", Len(Messages))
                     + RawSum("cache_read_input_tokens", Len(Messages))
       /\ FinalMetrics.total_completion_tokens
              = IF \A j \in UsagePositions :
                       Get(MsgUsage(Messages[j]), "output_tokens", 0) = Null
                THEN Null
                ELSE RawSum("output_tokens", Len(Messages))

\* C23 witness: a trajectory in which the usage of one message landed on its
\* first tool call, which was answered, that of another on its message
\* event, and the prompt total is the sum of both.
C23_Witness ==
    /\ HasTrajectory /\ WellFormedCalls
    /\ \E j, k \in UsagePositions :
           /\ OnlyToolUse(j) /\ ~OnlyToolUse(k)
           /\ \E n \in DOMAIN steps :
                  /\ steps[n].timestamp = j
                  /\ steps[n].metrics # NoneD
                  /\ steps[n].observation # NoneD
           /\ \E n \in DOMAIN steps :
                  /\ steps[n].timestamp = k
                  /\ steps[n].tool_calls = <<>>
                  /\ steps[n].metrics # NoneD
           /\ FinalMetrics.total_prompt_tokens
                  = PromptTokens(MsgUsage(Messages[j]))
                    + PromptTokens(MsgUsage(Messages[k]))

\* the events appended to normalized_events by the step taken
Appended ==
    [n \in 1..(Len(normalized_events') - Len(normalized_events)) |->
        normalized_events'[Len(normalized_events) + n]]

\* the event is the pending call e, with or without an output
EmissionOf(event, e) ==
    /\ DOMAIN e \subseteq DOMAIN event
    /\ [k \in DOMAIN e |-> event[k]] = e

\* the step taken walks a tool-result message
WalksResult == pc = "walk" /\ i <= Len(Messages) /\ IsToolMessage(Messages[i])

\* in the next state no two tool_call events stem from one invocation, and no
\* call is both resolved and still pending
EmittedOnce ==
    /\ \A m, n \in DOMAIN normalized_events' :
           (m < n /\ normalized_events'[m].kind = "tool_call"
            /\ normalized_events'[n].kind = "tool_call")
           => <<normalized_events'[m].call_id, normalized_events'[m].timestamp>>
                  # <<normalized_events'[n].call_id, normalized_events'[n].timestamp>>
    /\ pc' = "walk" =>
           \A e \in Range(pending_calls') : \A n \in DOMAIN normalized_events' :
               ~EmissionOf(normalized_events'[n], e)

\* C24: during the walk and the flush the events already emitted stay as they
\* are; a tool-result message appends exactly one event, which is the pending
\* call with its identifier when there is one, and else an event made for an
\* unknown identifier; a pending call stays pending until it is emitted, and
\* it is emitted once, at its resolution or in the flush.
C24_AtMostOnceCorrelation ==
    [][pc = "walk" =>
          /\ SubSeq(normalized_events', 1, Len(normalized_events)) = normalized_events
          /\ WalksResult =>
                 /\ Len(Appended) = 1
                 /\ IF Matches(pending_calls, Messages[i])
                    THEN \E e \in Range(pending_calls) :
                             /\ e.call_id = ResultCallId(Messages[i])
                             /\ EmissionOf(Appended[1], e)
                             /\ e \notin Range(pending_calls')
                    ELSE /\ Appended[1].timestamp = i
                         /\ Appended[1].arguments = EmptyDict
                         /\ pending_calls' = pending_calls
          /\ \A e \in Range(pending_calls) :
                 \/ e \in Range(pending_calls')
                 \/ \E n \in DOMAIN Appended : EmissionOf(Appended[n], e)
          /\ pc' = "steps" =>
                 \A e \in Range(pending_calls) :
                     \E n \in DOMAIN Appended : EmissionOf(Appended[n], e)
          /\ EmittedOnce]_vars

====
